---------------------------- MODULE Spec2Model ----------------------------
(***************************************************************************)
(* The event scheduler of platform/linux-generic/odp_schedule.c.           *)
(*                                                                         *)
(* Shared state (sched_t): the priority lanes pri_queue[prio][id], the     *)
(* lane masks pri_mask[prio], the reference counts pri_count[prio][id],    *)
(* the command buffer pool and the schedule groups.  Per thread: the       *)
(* thread local context sched_local and the position inside a schedule()   *)
(* or order_lock() call.  schedule() is not atomic: it is cut at its       *)
(* accesses to shared memory, so that calls of several threads interleave. *)
(* The queue entries, the packet input driver and the ordering subsystem   *)
(* live outside odp_schedule.c; they are modelled from their contracts.    *)
(***************************************************************************)
EXTENDS Integers, Sequences, FiniteSets, TLC

(* ------------------------------ constants ------------------------------ *)

\* Scheduler sub queues (lanes) per priority.
QUEUES_PER_PRIO == 4

\* Maximum number of dequeues of one dispatch.
MAX_DEQ == 4

\* Well-known schedule groups; named groups start after CONTROL.
ODP_SCHED_GROUP_ALL == 0

ODP_SCHED_GROUP_CONTROL == 2

ODP_SCHED_GROUP_NAMED == ODP_SCHED_GROUP_CONTROL + 1

(* ------------------------------- bounds -------------------------------- *)

\* ODP_CONFIG_SCHED_PRIOS: number of priority levels.
NumPrios == 2

\* Number of threads (odp_thread_id() ranges over 0..NumThreads-1).
NumThreads == 3

\* ODP_CONFIG_QUEUES: number of queue entries.
NumQueues == 5

\* ODP_CONFIG_PKTIO_ENTRIES: number of packet input interfaces.
NumPktio == 1

\* Number of named schedule groups (ODP_CONFIG_SCHED_GRPS minus well-known).
NumNamedGrps == 2

\* ODP_CONFIG_MAX_ORDERED_LOCKS_PER_QUEUE.
MaxOrderedLocks == 1

\* Events a producer enqueues into one source queue over a run.
MaxEnq == 2

\* Largest num argument of odp_schedule_multi().
MaxBurst == 2

\* Times one queue entry is created over a run.
MaxCreate == 1

(* -------------------------------- sets --------------------------------- *)

Prios   == 0 .. NumPrios - 1
Lanes   == 0 .. QUEUES_PER_PRIO - 1
Threads == 0 .. NumThreads - 1
Queues  == 0 .. NumQueues - 1
Pktios  == 0 .. NumPktio - 1
ODP_CONFIG_SCHED_GRPS == ODP_SCHED_GROUP_NAMED + NumNamedGrps
Groups  == 0 .. ODP_CONFIG_SCHED_GRPS - 1
NamedGroups == ODP_SCHED_GROUP_NAMED .. ODP_CONFIG_SCHED_GRPS - 1
LockIdx == 0 .. MaxOrderedLocks - 1
NUM_SCHED_CMD == NumQueues + NumPktio

\* No priority: worse than every priority.
NoPrio == NumPrios

\* ODP_QUEUE_INVALID, ODP_EVENT_INVALID, NULL.
NONE == -1

\* No lane (ODP_QUEUE_INVALID in sched_local.pri_queue) and no command event.
NoLane == <<>>

NoCmd == [cmd |-> "NONE"]

\* ODP_SCHED_GROUP_NAME_LEN: size of a group's name buffer, the NUL included.
NAME_LEN == 3

\* Group names a caller may pass to group_create: strings as character
\* sequences, the empty string and one too long for the buffer included.
GroupNames == {<<>>, <<"a">>, <<"a", "b", "c">>}

SyncClasses == {"parallel", "atomic", "ordered"}

VARIABLES
    pri_queue,    \* sched->pri_queue[prio][id]: the lane's sequence of command tokens
    pri_mask,     \* sched->pri_mask[prio]: set of lane ids whose bit is set
    pri_count,    \* sched->pri_count[prio][id]
    pool,         \* free buffers of sched->pool
    sched_grp,    \* sched->sched_grp[g]: [name, mask]
    queue,        \* queue entries: status, param, events, sync_out, order counters
    pktio,        \* per packet input: the number of its live POLL_PKTIN commands
    sched_local,  \* per thread: sched_local_t
    frame,        \* per thread: position and locals of the call in progress
    result,       \* per thread: the count the last completed schedule() call
                  \* returned, and the source queue it reported
    aborted,      \* ODP_ABORT / failed ODP_ASSERT: the process is terminated
    premature,    \* history: schedule_queue() was called for a queue whose token
                  \* was still on a lane, in a dispatcher's hand or held as context
    cs_log,       \* history: the sync values with which order_lock returned, in
                  \* the order of the returns
    best,         \* history, per thread: the best priority that had a ready queue
                  \* at the head of a lane when the walk in progress started
    admin,        \* history: the last administration call and what it returned;
                  \* of a group operation also the table (group_join: the mask)
                  \* before the call; of a group_leave the mask the group had
                  \* before the successful group_join of the same group and mask
                  \* that the leave directly follows, if it follows one; of a
                  \* group_destroy the table before the group_create that
                  \* returned the group and that the destroy directly follows,
                  \* if it follows one
    created       \* history, per named slot: the name given to the group_create
                  \* that returned the slot, until group_destroy is called for it

vars == <<pri_queue, pri_mask, pri_count, pool, sched_grp, queue, pktio,
          sched_local, frame, result, aborted, premature, cs_log, best, admin, created>>

(* ------------------------------ commands ------------------------------- *)

\* sched_cmd_t with cmd = SCHED_CMD_DEQUEUE.
DequeueCmd(q) == [cmd |-> "DEQUEUE", qe |-> q]

\* sched_cmd_t with cmd = SCHED_CMD_POLL_PKTIN.
PollCmd(k, prio) == [cmd |-> "POLL_PKTIN", pktio |-> k, prio |-> prio]

\* queue_to_id / pktio_to_id: handles are the table indices.
queue_to_id(q) == q

pktio_to_id(k) == k

\* (QUEUES_PER_PRIO-1) & id, QUEUES_PER_PRIO being a power of two.
pri_id_queue(q) == queue_to_id(q) % QUEUES_PER_PRIO

pri_id_pktio(k) == pktio_to_id(k) % QUEUES_PER_PRIO


(* ------------------------- substrate contracts -------------------------- *)

\* Buffer header of an event of source queue q: its order and sync[] numbers
\* record its position n among the events of q.
Event(q, n) == [qe |-> q, order |-> n, sync |-> [k \in LockIdx |-> n]]

\* A queue entry that is not in use.
FreeQueue ==
    [status |-> "free",
     param |-> [prio |-> 0, sync |-> "parallel", group |-> ODP_SCHED_GROUP_ALL,
                lock_count |-> 0],
     events |-> <<>>, order_in |-> 0, order_out |-> 0, released |-> {},
     sync_out |-> [k \in LockIdx |-> 0], created |-> 0]

\* A queue entry as odp_queue_create leaves it before schedule_queue_init.
NewQueue(prm, n) ==
    [FreeQueue EXCEPT !.status = "ready", !.param = prm, !.created = n]

queue_prio(q) == queue[q].param.prio

queue_is_ordered(q) == queue[q].param.sync = "ordered"

queue_is_atomic(q) == queue[q].param.sync = "atomic"

\* Parameter records a queue may be created with.
QueueParams(prios, classes, groups, locks) ==
    [prio : prios, sync : classes, group : groups, lock_count : locks]

Max(a, b) == IF a >= b THEN a ELSE b

Min(a, b) == IF a <= b THEN a ELSE b

\* First n elements of a sequence, and the rest.
Take(s, n) == SubSeq(s, 1, Min(n, Len(s)))

Drop(s, n) == SubSeq(s, Min(n, Len(s)) + 1, Len(s))

\* odp_queue_enq on a lane.
LaneEnq(pq, prio, id, tok) == [pq EXCEPT ![prio][id] = Append(@, tok)]

\* Number of occurrences of tok in sequence s.
Occurrences(s, tok) == Cardinality({n \in 1 .. Len(s) : s[n] = tok})

\* Occurrences of tok over all lanes.
LaneCopies(tok) ==
    LET ids == Prios \X Lanes
        RECURSIVE Sum(_)
        Sum(S) == IF S = {} THEN 0
                  ELSE LET x == CHOOSE y \in S : TRUE
                       IN Occurrences(pri_queue[x[1]][x[2]], tok) + Sum(S \ {x})
    IN Sum(ids)

\* Threads holding tok in hand inside schedule() (dequeued, not yet disposed of).
InHand(tok) == {t \in Threads : frame[t].pc \in {"cmd", "deq"} /\ frame[t].ev = tok}

\* Threads holding tok as their atomic context.
Holders(tok) ==
    {t \in Threads : sched_local[t].pri_queue # NoLane /\ sched_local[t].cmd_ev = tok}

\* All places a token can be.
TokenCopies(tok) ==
    LaneCopies(tok) + Cardinality(InHand(tok)) + Cardinality(Holders(tok))

\* release_order() of the ordering subsystem, when it succeeds: the order is
\* resolved; order_out passes every resolved order that is next in line, and
\* each sync_out[k] of the queue's locks is brought up to order_out.
RECURSIVE NextUnresolved(_, _)
NextUnresolved(n, rel) == IF n \in rel THEN NextUnresolved(n + 1, rel) ELSE n

release_order(qrec, order) ==
    LET rel == qrec.released \cup {order}
        out == NextUnresolved(qrec.order_out, rel)
    IN [qrec EXCEPT
          !.order_out = out,
          !.released  = {n \in rel : n >= out},
          !.sync_out  = [k \in LockIdx |->
                            IF k < qrec.param.lock_count
                            THEN Max(qrec.sync_out[k], out)
                            ELSE qrec.sync_out[k]]]

(* ---------------------------- priority fabric --------------------------- *)

\* pri_set: under mask_lock, set the bit and count the source.
pri_set_mask(mask, id, prio) == [mask EXCEPT ![prio] = @ \cup {id}]

pri_set_count(cnt, id, prio) == [cnt EXCEPT ![prio][id] = @ + 1]

\* pri_clr forgetting every other user of the lane.
pri_clr_count_reset(cnt, id, prio) == [cnt EXCEPT ![prio][id] = 0]

\* pri_clr: under mask_lock, uncount the source; clear the bit when the last
\* source of the lane is removed.  (The count is a uint32_t; no caller
\* uncounts a lane that was not counted, so it never wraps.)
pri_clr_count(cnt, id, prio) == [cnt EXCEPT ![prio][id] = @ - 1]

\* pri_clr clearing the bit without looking at the count.
pri_clr_mask_always(mask, cnt, id, prio) == [mask EXCEPT ![prio] = @ \ {id}]

pri_clr_mask(mask, cnt, id, prio) ==
    IF pri_clr_count(cnt, id, prio)[prio][id] = 0
    THEN [mask EXCEPT ![prio] = @ \ {id}]
    ELSE mask

(* ------------------------- per-thread context --------------------------- *)

\* sched_local_init.
sched_local_init ==
    [pri_queue |-> NoLane, cmd_ev |-> NoCmd, buf_hdr |-> <<>>, qe |-> NONE,
     origin_qe |-> NONE, order |-> 0, sync |-> [k \in LockIdx |-> 0],
     enq_called |-> 0, pause |-> 0, ignore_ordered_context |-> 0]

\* sched_local.num: buf_hdr holds the cached events not yet handed out
\* (buf_hdr[index .. index+num-1] of the source).
local_num(t) == Len(sched_local[t].buf_hdr)

\* No call in progress.
IdleFrame ==
    [pc |-> "idle", i |-> 0, j |-> 0, id |-> 0, ev |-> NoCmd,
     max_num |-> 0, max_deq |-> 0, lock_index |-> 0, sync_out |-> 0]

NoResult == [ret |-> NONE, out_queue |-> NONE]

\* No administration call made yet.
NoCall == [op |-> "none", ret |-> 0]

\* odp_schedule_init_global followed by odp_schedule_init_local of every thread.
InitScheduler ==
    /\ pri_queue = [p \in Prios |-> [l \in Lanes |-> <<>>]]
    /\ pri_mask = [p \in Prios |-> {}]
    /\ pri_count = [p \in Prios |-> [l \in Lanes |-> 0]]
    /\ pool = NUM_SCHED_CMD
    /\ sched_local = [t \in Threads |-> sched_local_init]
    /\ frame = [t \in Threads |-> IdleFrame]
    /\ result = [t \in Threads |-> NoResult]
    /\ aborted = FALSE
    /\ premature = FALSE
    /\ cs_log = <<>>
    /\ best = [t \in Threads |-> NoPrio]
    /\ admin = NoCall
    /\ created = [g \in NamedGroups |-> {}]

\* The group table after init: no named group; the well-known masks are kept
\* by the thread subsystem (every thread is a worker here).
InitGroups ==
    sched_grp = [g \in Groups |->
                    [name |-> <<>>,
                     mask |-> IF g < ODP_SCHED_GROUP_CONTROL THEN Threads ELSE {}]]

(* ------------------- attach, detach, packet input start ----------------- *)

\* schedule_queue_init(qe), qe being the new entry of q: -1 and no change when
\* the pool is empty; else a DEQUEUE command buffer is allocated for the queue
\* and its lane is counted.  The command is not put on the lane.
schedule_queue_init(q, qe) ==
    IF pool = 0
    THEN /\ admin' = [op |-> "schedule_queue_init", ret |-> -1]
         /\ UNCHANGED <<pool, pri_mask, pri_count, queue>>
    ELSE /\ pool' = pool - 1
         /\ pri_mask' = pri_set_mask(pri_mask, pri_id_queue(q), qe.param.prio)
         /\ pri_count' = pri_set_count(pri_count, pri_id_queue(q), qe.param.prio)
         /\ queue' = [queue EXCEPT ![q] = qe]
         /\ admin' = [op |-> "schedule_queue_init", ret |-> 0]

\* odp_queue_create of a scheduled queue with parameters prm.
queue_create(q, prm) ==
    /\ ~aborted
    /\ queue[q].status = "free"
    /\ queue[q].created < MaxCreate
    /\ schedule_queue_init(q, NewQueue(prm, queue[q].created + 1))
    /\ UNCHANGED <<pri_queue, sched_grp, pktio, sched_local, frame, result,
                   aborted, premature, cs_log, best>>
    /\ UNCHANGED created

\* schedule_queue_destroy(qe): the command buffer is freed, the lane uncounted,
\* cmd_ev and pri_queue of the entry invalidated.
schedule_queue_destroy(q) ==
    /\ pool' = pool + 1
    /\ pri_mask' = pri_clr_mask(pri_mask, pri_count, pri_id_queue(q), queue_prio(q))
    /\ pri_count' = pri_clr_count(pri_count, pri_id_queue(q), queue_prio(q))
    /\ queue' = [queue EXCEPT ![q] = [FreeQueue EXCEPT !.created = queue[q].created]]

\* queue_destroy_finalize(qe): a destroyed queue is detached from the
\* scheduler by the dispatcher that found it destroyed.
queue_destroy_finalize(q) ==
    IF queue[q].status = "destroyed"
    THEN schedule_queue_destroy(q)
    ELSE UNCHANGED <<pool, pri_mask, pri_count, queue>>

\* odp_queue_destroy of an empty scheduled queue: detached at once when its
\* command token is nowhere in the scheduler, else left to the dispatcher.
queue_destroy(q) ==
    /\ ~aborted
    /\ queue[q].status = "ready"
    /\ queue[q].events = <<>>
    /\ IF TokenCopies(DequeueCmd(q)) = 0
       THEN schedule_queue_destroy(q)
       ELSE /\ queue' = [queue EXCEPT ![q].status = "destroyed"]
            /\ UNCHANGED <<pool, pri_mask, pri_count>>
    /\ UNCHANGED <<pri_queue, sched_grp, pktio, sched_local, frame, result,
                   aborted, premature, cs_log, best>>
    /\ UNCHANGED <<admin, created>>

\* Packet inputs with a live POLL_PKTIN command.
Polled == {k \in Pktios : pktio[k] > 0}

\* schedule_pktio_start(pktio, prio): -1 and no change when the pool is empty;
\* else a POLL_PKTIN command is allocated, its lane counted and the command
\* put on the lane.  Nothing in the scheduler keeps a caller from starting an
\* input that is being polled: every start allocates a command of its own.
schedule_pktio_start(k, prio) ==
    /\ ~aborted
    /\ IF pool = 0
       THEN /\ admin' = [op |-> "schedule_pktio_start", ret |-> -1]
            /\ UNCHANGED <<pool, pri_mask, pri_count, pri_queue, pktio>>
       ELSE /\ pool' = pool - 1
            /\ pri_mask' = pri_set_mask(pri_mask, pri_id_pktio(k), prio)
            /\ pri_count' = pri_set_count(pri_count, pri_id_pktio(k), prio)
            /\ pri_queue' = LaneEnq(pri_queue, prio, pri_id_pktio(k), PollCmd(k, prio))
            /\ pktio' = [pktio EXCEPT ![k] = @ + 1]
            /\ admin' = [op |-> "schedule_pktio_start", ret |-> 0]
    /\ UNCHANGED <<sched_grp, queue, sched_local, frame, result, aborted, premature, cs_log, best>>
    /\ UNCHANGED created

(* ------------------------- producer re-admission ------------------------ *)

\* get_sched_order: the ignore flag is consumed.
get_sched_order(sl) == [sl EXCEPT !.ignore_ordered_context = 0]

\* schedule_queue(qe) by thread t: the caller's ordered context is ignored for
\* the enqueue of the queue's command on its lane, and that enqueue consumes
\* the flag through get_sched_order.
schedule_queue(t, q, sl) ==
    /\ sched_local' = [sched_local EXCEPT ![t] =
                          get_sched_order([sl EXCEPT !.ignore_ordered_context = 1])]
    /\ pri_queue' = LaneEnq(pri_queue, queue_prio(q), pri_id_queue(q), DequeueCmd(q))

\* queue_enq of one event into source queue q by thread t: a producer that
\* enqueues into an empty source queue calls schedule_queue.
queue_enq(t, q) ==
    /\ ~aborted
    /\ frame[t].pc = "idle"
    /\ queue[q].status = "ready"
    /\ queue[q].order_in < MaxEnq
    /\ queue' = [queue EXCEPT ![q].events = Append(@, Event(q, queue[q].order_in)),
                              ![q].order_in = @ + 1]
    /\ IF queue[q].events = <<>>
       THEN /\ schedule_queue(t, q, get_sched_order(sched_local[t]))
            /\ premature' = (premature \/ TokenCopies(DequeueCmd(q)) > 0)
       ELSE /\ sched_local' = [sched_local EXCEPT ![t] = get_sched_order(@)]
            /\ UNCHANGED <<pri_queue, premature>>
    /\ UNCHANGED <<cs_log, best>>
    /\ UNCHANGED <<pri_mask, pri_count, pool, sched_grp, pktio, frame, result, aborted>>
    /\ UNCHANGED <<admin, created>>

(* ---------------------------- context release --------------------------- *)

\* odp_schedule_release_atomic on context sl: with an atomic context held and
\* no cached events, the command goes back on its lane and the context is
\* dropped.
\* A release that does not look at the local cache.
CanReleaseAtomic_cached(sl) == sl.pri_queue # NoLane

CanReleaseAtomic(sl) == sl.pri_queue # NoLane /\ Len(sl.buf_hdr) = 0

\* release_atomic forgetting to invalidate sched_local.pri_queue.
release_atomic_local_keep(sl) == sl

release_atomic_local(sl) ==
    IF CanReleaseAtomic(sl) THEN [sl EXCEPT !.pri_queue = NoLane] ELSE sl

release_atomic_lanes(pq, sl) ==
    IF CanReleaseAtomic(sl)
    THEN LaneEnq(pq, sl.pri_queue[1], sl.pri_queue[2], sl.cmd_ev)
    ELSE pq

\* odp_schedule_release_ordered on context sl, rc being what release_order
\* returns: the ordered origin is cleared on success only.
release_ordered_local(sl, rc) ==
    IF sl.origin_qe # NONE /\ rc = 0 THEN [sl EXCEPT !.origin_qe = NONE] ELSE sl

\* The origin queue after the release_order call of a release (rc as above).
release_order_queue(qs, sl, rc) ==
    IF sl.origin_qe # NONE /\ rc = 0
    THEN [qs EXCEPT ![sl.origin_qe] = release_order(@, sl.order)]
    ELSE qs

\* A release_context that leaves the context as it is.
release_context_local_keep(sl, rc) == sl

\* odp_schedule_release_context on context sl: an ordered context is released
\* and cleared whatever release_order returns; otherwise release_atomic.
release_context_local(sl, rc) ==
    IF sl.origin_qe # NONE
    THEN [sl EXCEPT !.origin_qe = NONE]
    ELSE release_atomic_local(sl)

\* A release that drops an atomic context without giving the command back.
release_context_lanes_drop(pq, sl) == pq

release_context_lanes(pq, sl) ==
    IF sl.origin_qe # NONE THEN pq ELSE release_atomic_lanes(pq, sl)

\* The values release_order may return.
ReleaseRc == {0, -1}

odp_schedule_release_atomic(t) ==
    /\ ~aborted
    /\ frame[t].pc = "idle"
    /\ sched_local' = [sched_local EXCEPT ![t] = release_atomic_local(@)]
    /\ pri_queue' = release_atomic_lanes(pri_queue, sched_local[t])
    /\ UNCHANGED <<pri_mask, pri_count, pool, sched_grp, queue, pktio, frame,
                   result, aborted, premature, cs_log, best>>
    /\ UNCHANGED <<admin, created>>

odp_schedule_release_ordered(t, rc) ==
    /\ ~aborted
    /\ frame[t].pc = "idle"
    /\ sched_local' = [sched_local EXCEPT ![t] = release_ordered_local(@, rc)]
    /\ queue' = release_order_queue(queue, sched_local[t], rc)
    /\ UNCHANGED <<pri_queue, pri_mask, pri_count, pool, sched_grp, pktio, frame,
                   result, aborted, premature, cs_log, best>>
    /\ UNCHANGED <<admin, created>>

odp_schedule_release_context(t, rc) ==
    /\ ~aborted
    /\ frame[t].pc = "idle"
    /\ sched_local' = [sched_local EXCEPT ![t] = release_context_local(@, rc)]
    /\ pri_queue' = release_context_lanes(pri_queue, sched_local[t])
    /\ queue' = release_order_queue(queue, sched_local[t], rc)
    /\ UNCHANGED <<pri_mask, pri_count, pool, sched_grp, pktio, frame,
                   result, aborted, premature, cs_log, best>>
    /\ UNCHANGED <<admin, created>>

odp_schedule_pause(t) ==
    /\ ~aborted
    /\ frame[t].pc = "idle"
    /\ sched_local' = [sched_local EXCEPT ![t].pause = 1]
    /\ UNCHANGED <<pri_queue, pri_mask, pri_count, pool, sched_grp, queue, pktio,
                   frame, result, aborted, premature, cs_log, best>>
    /\ UNCHANGED <<admin, created>>

odp_schedule_resume(t) ==
    /\ ~aborted
    /\ frame[t].pc = "idle"
    /\ sched_local' = [sched_local EXCEPT ![t].pause = 0]
    /\ UNCHANGED <<pri_queue, pri_mask, pri_count, pool, sched_grp, queue, pktio,
                   frame, result, aborted, premature, cs_log, best>>
    /\ UNCHANGED <<admin, created>>

\* odp_schedule_term_local: refused while events are cached; else the context
\* is released and the thread local state reinitialised.
odp_schedule_term_local(t, rc) ==
    /\ ~aborted
    /\ frame[t].pc = "idle"
    /\ IF local_num(t) # 0
       THEN /\ admin' = [op |-> "term_local", thr |-> t, ret |-> -1]
            /\ UNCHANGED <<sched_local, pri_queue, queue>>
       ELSE /\ sched_local' = [sched_local EXCEPT ![t] = sched_local_init]
            /\ pri_queue' = release_context_lanes(pri_queue, sched_local[t])
            /\ queue' = release_order_queue(queue, sched_local[t], rc)
            /\ admin' = [op |-> "term_local", thr |-> t, ret |-> 0]
    /\ UNCHANGED <<pri_mask, pri_count, pool, sched_grp, pktio, frame,
                   result, aborted, premature, cs_log, best>>
    /\ UNCHANGED created

(* ------------------------------ schedule() ------------------------------ *)

\* copy_events(out_ev, max) on cache buf: the events handed out, the events kept.
copy_events_out(buf, max) == Take(buf, max)

copy_events_rest(buf, max) == Drop(buf, max)

\* schedule() returns n events to thread t, all of source queue oq.
Return(t, n, oq) ==
    /\ frame' = [frame EXCEPT ![t] = IdleFrame]
    /\ result' = [result EXCEPT ![t] = [ret |-> n, out_queue |-> oq]]

\* History of a walk: the best priority at which thread thr finds, in lanes pq and queue table
\* qs, a queue in use that is not empty, that thr is eligible for and whose
\* command is the first of its lane.
HeadReady(pq, qs, thr, q) ==
    /\ qs[q].status = "ready"
    /\ qs[q].events # <<>>
    /\ \/ qs[q].param.group <= ODP_SCHED_GROUP_ALL
       \/ thr \in sched_grp[qs[q].param.group].mask
    /\ pq[qs[q].param.prio][pri_id_queue(q)] # <<>>
    /\ Head(pq[qs[q].param.prio][pri_id_queue(q)]) = DequeueCmd(q)

BestReady(pq, qs, thr) ==
    LET ps == {qs[q].param.prio : q \in {r \in Queues : HeadReady(pq, qs, thr, r)}}
    IN IF ps = {} THEN NoPrio ELSE CHOOSE p \in ps : \A r \in ps : p <= r

\* The history of thread t's walk ends with the call.
WalkHistory(t) ==
    best' = [best EXCEPT ![t] = IF frame'[t].pc = "idle" THEN NoPrio ELSE @]

\* A walk that starts at lane 0 whoever walks.
StartLane_zero(thr) == 0

\* Lane at which thread thr starts the walk of a priority.
StartLane(thr) == thr % QUEUES_PER_PRIO

\* "if (id >= QUEUES_PER_PRIO) id = 0" at the top of the lane loop body.
WrapLane(id) == IF id >= QUEUES_PER_PRIO THEN 0 ELSE id

\* A walk that gives up at the first lane that yields nothing.
ContinueFrom_giveup(t, f) == Return(t, 0, NONE)

\* The lane loop's "continue" of a call whose frame is f: next lane (j++,
\* id++), after the last lane the next priority, after the last priority
\* "return 0".
ContinueFrom(t, f) ==
    IF f.j + 1 < QUEUES_PER_PRIO
    THEN /\ frame' = [frame EXCEPT ![t] =
                         [f EXCEPT !.pc = "lane", !.j = f.j + 1,
                                   !.id = WrapLane(f.id) + 1, !.ev = NoCmd]]
         /\ UNCHANGED result
    ELSE IF f.i + 1 < NumPrios
    THEN /\ frame' = [frame EXCEPT ![t] =
                         [f EXCEPT !.pc = "prio", !.i = f.i + 1, !.j = 0,
                                   !.id = 0, !.ev = NoCmd]]
         /\ UNCHANGED result
    ELSE Return(t, 0, NONE)

Continue(t) == ContinueFrom(t, frame[t])

\* A thread that is never taken for paused.
Paused_never(sl) == FALSE

\* "if (odp_unlikely(sched_local.pause))" of schedule().
Paused(sl) == sl.pause # 0

\* Entry of schedule(out_queue, out_ev, max_num, MAX_DEQ) by thread t: cached
\* events are served first; else the context of the previous call is released
\* (rc: what release_order returns), a paused thread returns 0 and the others
\* start the walk at priority 0.
schedule_enter(t, max_num, rc) ==
    LET sl == sched_local[t] IN
    /\ ~aborted
    /\ frame[t].pc = "idle"
    /\ IF Len(sl.buf_hdr) # 0
       THEN /\ sched_local' = [sched_local EXCEPT
                                 ![t].buf_hdr = copy_events_rest(sl.buf_hdr, max_num)]
            /\ Return(t, Len(copy_events_out(sl.buf_hdr, max_num)), sl.qe)
            /\ UNCHANGED <<pri_queue, queue>>
       ELSE /\ sched_local' = [sched_local EXCEPT ![t] = release_context_local(sl, rc)]
            /\ pri_queue' = release_context_lanes(pri_queue, sl)
            /\ queue' = release_order_queue(queue, sl, rc)
            /\ IF Paused(sl)
               THEN Return(t, 0, NONE)
               ELSE /\ frame' = [frame EXCEPT ![t] =
                                    [IdleFrame EXCEPT !.pc = "prio", !.max_num = max_num,
                                                      !.max_deq = MAX_DEQ]]
                    /\ result' = [result EXCEPT ![t] = NoResult]
    /\ best' = [best EXCEPT ![t] = IF frame'[t].pc = "idle" THEN NoPrio
                                    ELSE BestReady(pri_queue', queue', t)]
    /\ UNCHANGED <<pri_mask, pri_count, pool, sched_grp, pktio, aborted, premature, cs_log>>
    /\ UNCHANGED <<admin, created>>

\* Top of the priority loop: a priority whose mask is zero is skipped.
schedule_prio(t) ==
    LET f == frame[t] IN
    /\ ~aborted
    /\ f.pc = "prio"
    /\ IF pri_mask[f.i] = {}
       THEN IF f.i + 1 < NumPrios
            THEN /\ frame' = [frame EXCEPT ![t].i = f.i + 1]
                 /\ UNCHANGED result
            ELSE Return(t, 0, NONE)
       ELSE /\ frame' = [frame EXCEPT ![t] =
                            [f EXCEPT !.pc = "lane", !.j = 0, !.id = StartLane(t)]]
            /\ UNCHANGED result
    /\ WalkHistory(t)
    /\ UNCHANGED <<pri_queue, pri_mask, pri_count, pool, sched_grp, queue, pktio,
                   sched_local, aborted, premature, cs_log>>
    /\ UNCHANGED <<admin, created>>

\* Top of the lane loop body: a lane whose bit is clear or that is empty is
\* skipped; else one command is dequeued from the lane.
schedule_lane(t) ==
    LET f  == frame[t]
        id == WrapLane(f.id)
    IN
    /\ ~aborted
    /\ f.pc = "lane"
    /\ IF id \notin pri_mask[f.i] \/ pri_queue[f.i][id] = <<>>
       THEN /\ Continue(t)
            /\ UNCHANGED pri_queue
       ELSE /\ pri_queue' = [pri_queue EXCEPT ![f.i][id] = Tail(@)]
            /\ frame' = [frame EXCEPT ![t] =
                            [f EXCEPT !.pc = "cmd", !.id = id,
                                      !.ev = Head(pri_queue[f.i][id])]]
            /\ UNCHANGED result
    /\ WalkHistory(t)
    /\ UNCHANGED <<pri_mask, pri_count, pool, sched_grp, queue, pktio,
                   sched_local, aborted, premature, cs_log>>
    /\ UNCHANGED <<admin, created>>

\* The group test left out.
Ineligible_never(thr, q) == FALSE

\* The group test of a DEQUEUE command: thread thr may not take work of queue
\* q when q's group is above ALL and thr is not in the group's mask.
Ineligible(thr, q) ==
    /\ queue[q].param.group > ODP_SCHED_GROUP_ALL
    /\ thr \notin sched_grp[queue[q].param.group].mask

\* The dequeued command is decoded.  POLL_PKTIN: pktin_poll is called (retire:
\* what it returns); a retired input is uncounted and its command freed, else
\* the command goes back on the lane; the walk continues.  DEQUEUE: an
\* ineligible thread puts the command back on the lane and continues.
schedule_cmd(t, retire) ==
    LET f == frame[t] IN
    /\ ~aborted
    /\ f.pc = "cmd"
    /\ IF f.ev.cmd = "POLL_PKTIN"
       THEN /\ IF retire
               THEN /\ pri_mask' = pri_clr_mask(pri_mask, pri_count,
                                                pri_id_pktio(f.ev.pktio), f.ev.prio)
                    /\ pri_count' = pri_clr_count(pri_count,
                                                  pri_id_pktio(f.ev.pktio), f.ev.prio)
                    /\ pool' = pool + 1
                    /\ pktio' = [pktio EXCEPT ![f.ev.pktio] = @ - 1]
                    /\ UNCHANGED pri_queue
               ELSE /\ pri_queue' = LaneEnq(pri_queue, f.i, f.id, f.ev)
                    /\ UNCHANGED <<pri_mask, pri_count, pool, pktio>>
            /\ Continue(t)
       ELSE /\ IF Ineligible(t, f.ev.qe)
               THEN /\ pri_queue' = LaneEnq(pri_queue, f.i, f.id, f.ev)
                    /\ Continue(t)
               ELSE /\ frame' = [frame EXCEPT ![t].pc = "deq"]
                    /\ UNCHANGED <<pri_queue, result>>
            /\ UNCHANGED <<pri_mask, pri_count, pool, pktio>>
    /\ WalkHistory(t)
    /\ UNCHANGED <<sched_grp, queue, sched_local, aborted, premature, cs_log>>
    /\ UNCHANGED <<admin, created>>

\* queue_deq_multi(qe, buf_hdr, max_deq): negative for a queue that is not in
\* use any more, else the number of events taken from the head of the queue.
queue_deq_multi(q, max_deq) ==
    IF queue[q].status # "ready" THEN -1 ELSE Min(max_deq, Len(queue[q].events))

\* The command of a dispatched queue q after the dispatch: ordered and
\* parallel queues stay scheduled, the command of an atomic queue is withheld.
\* A dispatch that puts the command back whatever the class of the queue.
dispatch_lanes_requeue(pq, q, prio, id, ev) == LaneEnq(pq, prio, id, ev)

dispatch_lanes(pq, q, prio, id, ev) ==
    IF queue_is_ordered(q) THEN LaneEnq(pq, prio, id, ev)
    ELSE IF queue_is_atomic(q) THEN pq
    ELSE LaneEnq(pq, prio, id, ev)

\* The thread context after a dispatch of the events drained from queue q,
\* max_num of which are handed out at once.
dispatch_local(sl, q, prio, id, ev, drained, max_num) ==
    LET base == [sl EXCEPT !.buf_hdr = copy_events_rest(drained, max_num), !.qe = q]
    IN IF queue_is_ordered(q)
       THEN [base EXCEPT
               !.origin_qe = q,
               !.order = drained[1].order,
               !.sync = [k \in LockIdx |->
                            IF k < queue[q].param.lock_count
                            THEN drained[1].sync[k] ELSE sl.sync[k]],
               !.enq_called = 0]
       ELSE IF queue_is_atomic(q)
       THEN [base EXCEPT !.pri_queue = <<prio, id>>, !.cmd_ev = ev]
       ELSE base

\* max_deq of the call once it meets queue q: 1 for an ordered queue.
DeqLimit(q, max_deq) == IF queue_is_ordered(q) THEN 1 ELSE max_deq

\* The source queue of an eligible DEQUEUE command is drained: a destroyed
\* queue is finalized and an empty one dropped from scheduling (the walk
\* continues); else the events are cached, max_num of them returned, and the
\* command disposed of according to the queue's synchronisation class.
schedule_deq(t) ==
    LET f       == frame[t]
        q       == f.ev.qe
        max_deq == DeqLimit(q, f.max_deq)
        num     == queue_deq_multi(q, max_deq)
        drained == Take(queue[q].events, max_deq)
    IN
    /\ ~aborted
    /\ f.pc = "deq"
    /\ IF num < 0
       THEN /\ queue_destroy_finalize(q)
            /\ ContinueFrom(t, [f EXCEPT !.max_deq = max_deq])
            /\ UNCHANGED <<pri_queue, sched_local>>
       ELSE IF num = 0
       THEN /\ ContinueFrom(t, [f EXCEPT !.max_deq = max_deq])
            /\ UNCHANGED <<pri_queue, sched_local, pool, pri_mask, pri_count, queue>>
       ELSE /\ queue' = [queue EXCEPT ![q].events = Drop(@, max_deq)]
            /\ sched_local' = [sched_local EXCEPT ![t] =
                   dispatch_local(@, q, f.i, f.id, f.ev, drained, f.max_num)]
            /\ pri_queue' = dispatch_lanes(pri_queue, q, f.i, f.id, f.ev)
            /\ Return(t, Len(copy_events_out(drained, f.max_num)), q)
            /\ UNCHANGED <<pool, pri_mask, pri_count>>
    /\ WalkHistory(t)
    /\ UNCHANGED <<sched_grp, pktio, aborted, premature, cs_log>>
    /\ UNCHANGED <<admin, created>>

(* ------------------------------ ordered locks --------------------------- *)

\* odp_schedule_order_lock(lock_index) by thread t: no-op without an ordered
\* context or for an index the origin queue does not have.  Else sync_out is
\* loaded; sync < sync_out fails the assertion; the thread then waits.
odp_schedule_order_lock(t, lock_index) ==
    LET sl == sched_local[t]
        oq == sl.origin_qe
    IN
    /\ ~aborted
    /\ frame[t].pc = "idle"
    /\ IF oq = NONE \/ lock_index >= queue[oq].param.lock_count
       THEN UNCHANGED <<frame, aborted>>
       ELSE IF sl.sync[lock_index] < queue[oq].sync_out[lock_index]
       THEN /\ aborted' = TRUE
            /\ UNCHANGED frame
       ELSE /\ frame' = [frame EXCEPT ![t] =
                            [IdleFrame EXCEPT !.pc = "lock", !.lock_index = lock_index,
                                              !.sync_out = queue[oq].sync_out[lock_index]]]
            /\ UNCHANGED aborted
    /\ UNCHANGED <<pri_queue, pri_mask, pri_count, pool, sched_grp, queue, pktio,
                   sched_local, result, premature, cs_log, best>>
    /\ UNCHANGED <<admin, created>>

\* A loop test that lets a thread pass before its turn.
InOrderOrLater(sync, sync_out) == sync >= sync_out

\* The loop test of order_lock on the value loaded last.
InOrder(sync, sync_out) == sync = sync_out

\* The wait loop of order_lock: while sync differs from the sync_out loaded
\* last, sync_out is loaded again; else order_lock returns and the thread is
\* in its critical section.
order_lock_spin(t) ==
    LET f  == frame[t]
        sl == sched_local[t]
    IN
    /\ ~aborted
    /\ f.pc = "lock"
    /\ IF InOrder(sl.sync[f.lock_index], f.sync_out)
       THEN /\ frame' = [frame EXCEPT ![t] = [f EXCEPT !.pc = "cs", !.sync_out = 0]]
            /\ cs_log' = Append(cs_log, sl.sync[f.lock_index])
       ELSE /\ frame' = [frame EXCEPT ![t].sync_out =
                            queue[sl.origin_qe].sync_out[f.lock_index]]
            /\ UNCHANGED cs_log
    /\ UNCHANGED <<pri_queue, pri_mask, pri_count, pool, sched_grp, queue, pktio,
                   sched_local, result, aborted, premature, best>>
    /\ UNCHANGED <<admin, created>>

\* An unlock that counts twice.
sync_out_inc_twice(n) == n + 2

\* An unlock that does not count.
sync_out_inc_none(n) == n

\* The increment of order_unlock.
sync_out_inc(n) == n + 1

\* odp_schedule_order_unlock(lock_index) by thread t (in its critical section
\* of that lock, or not): no-op without an ordered context or for an index
\* the origin queue does not have; sync # sync_out fails the assertion; else
\* sync_out is incremented.
odp_schedule_order_unlock(t, lock_index) ==
    LET sl == sched_local[t]
        oq == sl.origin_qe
    IN
    /\ ~aborted
    /\ \/ frame[t].pc = "idle"
       \/ frame[t].pc = "cs" /\ frame[t].lock_index = lock_index
    /\ IF oq = NONE \/ lock_index >= queue[oq].param.lock_count
       THEN UNCHANGED <<queue, aborted>>
       ELSE IF sl.sync[lock_index] # queue[oq].sync_out[lock_index]
       THEN /\ aborted' = TRUE
            /\ UNCHANGED queue
       ELSE /\ queue' = [queue EXCEPT ![oq].sync_out[lock_index] = sync_out_inc(@)]
            /\ UNCHANGED aborted
    /\ frame' = [frame EXCEPT ![t] = IdleFrame]
    /\ UNCHANGED <<pri_queue, pri_mask, pri_count, pool, sched_grp, pktio,
                   sched_local, result, premature, cs_log, best>>
    /\ UNCHANGED <<admin, created>>

(* ----------------------------- schedule groups -------------------------- *)

\* sched_mask_all after odp_thrmask_setall.
sched_mask_all == Threads

\* An exclusive or that returns its first operand.
odp_thrmask_xor_first(a, b) == a

odp_thrmask_xor(a, b) == (a \ b) \cup (b \ a)

odp_thrmask_and(a, b) == a \cap b

odp_thrmask_or(a, b) == a \cup b

\* strncpy(dst, name, ODP_SCHED_GROUP_NAME_LEN - 1) into a zeroed buffer.
strncpy(name) == Take(name, NAME_LEN - 1)

\* Smallest element of a non-empty set of numbers.
SetMin(S) == CHOOSE x \in S : \A y \in S : x <= y

\* The named slots whose name is empty.
FreeSlots == {g \in NamedGroups : sched_grp[g].name = <<>>}

\* A create that takes the first named slot when none is free.
group_create_ret_first ==
    IF FreeSlots = {} THEN ODP_SCHED_GROUP_NAMED ELSE SetMin(FreeSlots)

\* What odp_schedule_group_create returns: the first free named slot, or
\* ODP_SCHED_GROUP_INVALID.
group_create_ret == IF FreeSlots = {} THEN NONE ELSE SetMin(FreeSlots)

\* odp_schedule_group_create(name, mask).
odp_schedule_group_create(name, mask) ==
    /\ ~aborted
    /\ IF group_create_ret = NONE
       THEN UNCHANGED sched_grp
       ELSE sched_grp' = [sched_grp EXCEPT ![group_create_ret] =
                             [name |-> strncpy(name), mask |-> mask]]
    /\ admin' = [op |-> "group_create", name |-> name, mask |-> mask,
                 ret |-> group_create_ret, before |-> sched_grp]
    /\ created' = IF group_create_ret = NONE THEN created
                  ELSE [created EXCEPT ![group_create_ret] = {name}]
    /\ UNCHANGED <<pri_queue, pri_mask, pri_count, pool, queue, pktio, sched_local,
                   frame, result, aborted, premature, cs_log, best>>

\* The test shared by destroy, join, leave and thrmask: a named, occupied slot.
GroupOccupied(g) ==
    /\ g < ODP_CONFIG_SCHED_GRPS
    /\ g >= ODP_SCHED_GROUP_NAMED
    /\ sched_grp[g].name # <<>>

\* odp_schedule_group_destroy(group): 0 and the slot freed, or -1.
odp_schedule_group_destroy(g) ==
    /\ ~aborted
    /\ IF GroupOccupied(g)
       THEN sched_grp' = [sched_grp EXCEPT ![g] = [name |-> <<>>, mask |-> {}]]
       ELSE UNCHANGED sched_grp
    /\ admin' = [op |-> "group_destroy", group |-> g,
                 ret |-> IF GroupOccupied(g) THEN 0 ELSE -1,
                 before |-> sched_grp,
                 created |-> IF admin.op = "group_create" /\ admin.ret = g
                             THEN {admin.before} ELSE {}]
    /\ created' = IF g \in NamedGroups THEN [created EXCEPT ![g] = {}] ELSE created
    /\ UNCHANGED <<pri_queue, pri_mask, pri_count, pool, queue, pktio, sched_local,
                   frame, result, aborted, premature, cs_log, best>>

\* Largest element of a non-empty set of numbers.
SetMax(S) == CHOOSE x \in S : \A y \in S : x >= y

\* A lookup that returns the last slot holding the name.
odp_schedule_group_lookup_last(name) ==
    LET hits == {g \in NamedGroups : sched_grp[g].name = name}
    IN IF hits = {} THEN NONE ELSE SetMax(hits)

\* What odp_schedule_group_lookup(name) returns: the first named slot holding
\* that name (strcmp of name with the stored name), or ODP_SCHED_GROUP_INVALID.
odp_schedule_group_lookup(name) ==
    LET hits == {g \in NamedGroups : sched_grp[g].name = name}
    IN IF hits = {} THEN NONE ELSE SetMin(hits)

\* odp_schedule_group_join(group, mask).
odp_schedule_group_join(g, mask) ==
    /\ ~aborted
    /\ IF GroupOccupied(g)
       THEN sched_grp' = [sched_grp EXCEPT ![g].mask = odp_thrmask_or(@, mask)]
       ELSE UNCHANGED sched_grp
    /\ admin' = [op |-> "group_join", group |-> g, mask |-> mask,
                 ret |-> IF GroupOccupied(g) THEN 0 ELSE -1,
                 before |-> IF GroupOccupied(g) THEN sched_grp[g].mask ELSE {}]
    /\ UNCHANGED <<pri_queue, pri_mask, pri_count, pool, queue, pktio, sched_local,
                   frame, result, aborted, premature, cs_log, best>>
    /\ UNCHANGED created

\* odp_schedule_group_leave(group, mask).
odp_schedule_group_leave(g, mask) ==
    /\ ~aborted
    /\ IF GroupOccupied(g)
       THEN sched_grp' = [sched_grp EXCEPT ![g].mask =
                             odp_thrmask_and(@, odp_thrmask_xor(mask, sched_mask_all))]
       ELSE UNCHANGED sched_grp
    /\ admin' = [op |-> "group_leave", group |-> g, mask |-> mask,
                 ret |-> IF GroupOccupied(g) THEN 0 ELSE -1,
                 joined |-> IF /\ admin.op = "group_join"
                               /\ admin.ret = 0
                               /\ admin.group = g
                               /\ admin.mask = mask
                            THEN {admin.before} ELSE {}]
    /\ UNCHANGED <<pri_queue, pri_mask, pri_count, pool, queue, pktio, sched_local,
                   frame, result, aborted, premature, cs_log, best>>
    /\ UNCHANGED created

(* ----------------------------- specifications --------------------------- *)

\* The steps inside schedule() of the threads of T.
ScheduleSteps(T) ==
    \E t \in T :
        \/ schedule_prio(t)
        \/ schedule_lane(t)
        \/ \E retire \in BOOLEAN : schedule_cmd(t, retire)
        \/ schedule_deq(t)

\* Worker threads and the producer thread of the lifecycle specification.
Workers == {0, 1}

Producer == NumThreads - 1

\* Queue entries the lifecycle specification creates and destroys.
DynQueues == {0}

\* After init_global and init_local: nothing attached.
Init ==
    /\ InitScheduler
    /\ InitGroups
    /\ queue = [q \in Queues |-> FreeQueue]
    /\ pktio = [k \in Pktios |-> 0]

\* Queues and packet inputs come and go, a producer fills the queues, two
\* workers schedule and release.  The callers start a packet input only
\* while it has no live command.
Next ==
    \/ \E q \in DynQueues :
          \E prm \in QueueParams(Prios, {"parallel", "atomic"},
                                 {ODP_SCHED_GROUP_ALL}, {0}) : queue_create(q, prm)
    \/ \E q \in DynQueues : queue_destroy(q)
    \/ \E k \in Pktios \ Polled : \E prio \in Prios : schedule_pktio_start(k, prio)
    \/ \E q \in DynQueues : queue_enq(Producer, q)
    \/ \E t \in Workers : \E n \in 1 .. MaxBurst : schedule_enter(t, n, 0)
    \/ ScheduleSteps(Workers)
    \/ \E t \in Workers : odp_schedule_release_atomic(t)

Spec == Init /\ [][Next]_vars

(* ------------------------- claims: command tokens ----------------------- *)

\* Number of command tokens on all lanes.
TokensOnLanes ==
    LET RECURSIVE Sum(_)
        Sum(S) == IF S = {} THEN 0
                  ELSE LET x == CHOOSE y \in S : TRUE
                       IN Len(pri_queue[x[1]][x[2]]) + Sum(S \ {x})
    IN Sum(Prios \X Lanes)

\* Queue entries with a command buffer (attached to the scheduler).
Attached == {q \in Queues : queue[q].status # "free"}

\* Threads holding an atomic context, and threads with a command in hand.
AtomicHolders == {t \in Threads : sched_local[t].pri_queue # NoLane}

CommandInHand == {t \in Threads : frame[t].pc \in {"cmd", "deq"}}

Quiescent == \A t \in Threads : frame[t].pc = "idle"

\* C1 as stated: whenever producers reschedule on enqueueing into an empty
\* source queue, at most one thread holds the command token of an atomic
\* queue as its atomic context.
C1_Original ==
    \A q \in Queues :
        queue[q].status # "free" /\ queue_is_atomic(q)
            => Cardinality(Holders(DequeueCmd(q))) <= 1

\* C1, amended: as long as schedule_queue() was never called for a queue whose
\* token was still on a lane, in a dispatcher's hand or held as a context, at
\* most one thread holds the token of an atomic queue as its atomic context,
\* and while a thread holds it the token is on no lane and in no other hand.
C1_AtomicExclusive ==
    ~premature =>
        \A q \in Queues :
            queue[q].status # "free" /\ queue_is_atomic(q)
                => /\ Cardinality(Holders(DequeueCmd(q))) <= 1
                   /\ Holders(DequeueCmd(q)) # {}
                         => /\ LaneCopies(DequeueCmd(q)) = 0
                            /\ InHand(DequeueCmd(q)) = {}

\* C1 witness: a producer has rescheduled an atomic queue in time, one thread
\* holds its token as atomic context and the other is inside schedule().
C1_Witness ==
    /\ ~premature
    /\ \E q \in Queues : \E t, u \in Workers :
          /\ queue_is_atomic(q) /\ queue[q].status = "ready"
          /\ Holders(DequeueCmd(q)) = {t}
          /\ queue[q].order_in = MaxEnq
          /\ u # t /\ frame[u].pc = "lane"

\* C2: bit id of pri_mask[p] is set if and only if pri_count[p][id] > 0.
C2_MaskIffCount ==
    \A p \in Prios : \A id \in Lanes : (id \in pri_mask[p]) <=> (pri_count[p][id] > 0)

\* C2 witness: a lane counted twice (an attached queue and a packet input)
\* while a dispatcher has the packet input's token in hand, about to retire it.
C2_Witness ==
    \E p \in Prios : \E id \in Lanes : \E k \in Polled : \E t \in Workers :
        /\ pri_count[p][id] = 2 /\ id \in pri_mask[p]
        /\ id = pri_id_pktio(k)
        /\ InHand(PollCmd(k, p)) = {t}

GroupSlot == ODP_SCHED_GROUP_NAMED

GroupQueue == 0

GroupMember == 0

GroupOutsider == 1

InitGroup == Init

\* A named group is created, joined, left and destroyed while a queue bound to
\* its slot is filled by the producer and two workers schedule.
NextGroup ==
    \/ \E m \in {{}, {GroupMember}} : odp_schedule_group_create(<<"a">>, m)
    \/ odp_schedule_group_destroy(GroupSlot)
    \/ odp_schedule_group_join(GroupSlot, {GroupMember})
    \/ odp_schedule_group_leave(GroupSlot, {GroupMember})
    \/ \E prm \in QueueParams({0}, {"parallel", "atomic"}, {GroupSlot}, {0}) :
          queue_create(GroupQueue, prm)
    \/ queue_enq(Producer, GroupQueue)
    \/ \E t \in Workers : \E n \in 1 .. MaxBurst : schedule_enter(t, n, 0)
    \/ ScheduleSteps(Workers)

SpecGroup == InitGroup /\ [][NextGroup]_vars

\* Thread t is handed events in this step: a dispatch returns what it drained,
\* or a call returns events of the local cache.
Delivered(t) ==
    /\ result'[t].ret > 0
    /\ \/ frame[t].pc = "deq"
       \/ /\ frame[t].pc = "idle"
          /\ Len(sched_local'[t].buf_hdr) < Len(sched_local[t].buf_hdr)

\* C5 as stated: a thread that is not in the mask of group g > ALL is never
\* handed an event of a queue of group g by schedule().
C5_Original ==
    [][\A t \in Workers :
          Delivered(t) =>
              LET g == queue[result'[t].out_queue].param.group
              IN g > ODP_SCHED_GROUP_ALL => t \in sched_grp[g].mask]_vars

\* The group check of thread t on the DEQUEUE command it has in hand.
GroupCheck(t) ==
    LET f == frame[t]
        q == f.ev.qe
        g == queue[q].param.group
    IN (f.pc = "cmd" /\ frame'[t] # f /\ f.ev.cmd = "DEQUEUE") =>
          IF g > ODP_SCHED_GROUP_ALL /\ t \notin sched_grp[g].mask
          THEN /\ pri_queue' = LaneEnq(pri_queue, f.i, f.id, f.ev)
               /\ queue' = queue
               /\ sched_local' = sched_local
               /\ frame'[t].pc # "deq"
               /\ result'[t].ret <= 0
          ELSE /\ frame'[t].pc = "deq"
               /\ pri_queue' = pri_queue

\* C5, amended: eligibility is decided when the token is taken off its lane.
\* A thread that is then not in the mask of the queue's group g > ALL puts
\* the token back at the tail of the same lane, leaves the source queue and
\* its own context untouched and is handed nothing by that command; a thread
\* that is never put into the mask is never handed an event of the queue and
\* never caches one.
C5_GroupEligibility ==
    /\ [][\A t \in Workers : GroupCheck(t)]_vars
    /\ [](/\ result[GroupOutsider].ret <= 0
          /\ sched_local[GroupOutsider].buf_hdr = <<>>
          /\ frame[GroupOutsider].pc # "deq")

\* C5 witness: the outsider has finished a call with nothing and is not in
\* the mask, while the member has passed the group check and is about to
\* drain the queue of the group, which holds events.
C5_Witness ==
    /\ ~premature
    /\ sched_grp[GroupSlot].mask = {GroupMember}
    /\ result[GroupOutsider].ret = 0
    /\ queue[GroupQueue].events # <<>>
    /\ frame[GroupMember].pc = "deq"
    /\ frame[GroupMember].ev = DequeueCmd(GroupQueue)

(* ------------------------- priority preference (C8) --------------------- *)

\* The thread whose calls are observed and the queues of the scenario.
Walker == 0

PrioQueues == {0, 1}

InitPrio == Init

\* One thread schedules; queues and a packet input are created and filled only
\* between its calls.
NextPrio ==
    \/ /\ frame[Walker].pc = "idle"
       /\ \E q \in PrioQueues :
             \E prm \in QueueParams(Prios, {"parallel", "atomic"},
                                    {ODP_SCHED_GROUP_ALL}, {0}) : queue_create(q, prm)
    \/ /\ frame[Walker].pc = "idle"
       /\ \E k \in Pktios \ Polled : \E prio \in Prios : schedule_pktio_start(k, prio)
    \/ /\ frame[Walker].pc = "idle"
       /\ \E q \in PrioQueues : queue_enq(Producer, q)
    \/ \E n \in 1 .. MaxBurst : schedule_enter(Walker, n, 0)
    \/ ScheduleSteps({Walker})

SpecPrio == InitPrio /\ [][NextPrio]_vars

\* Queue q is attached, not empty, has its token on its lane and thread t is
\* eligible for it.
ReadyOnLane(t, q) ==
    /\ queue[q].status = "ready"
    /\ queue[q].events # <<>>
    /\ LaneCopies(DequeueCmd(q)) > 0
    /\ ~Ineligible(t, q)

\* C8 as stated: no schedule() call returns an event of a queue of priority p
\* while a queue of a lower-index priority is attached, not empty, on its lane
\* and eligible for the caller.
C8_Original ==
    [][Delivered(Walker) =>
          ~\E q \in Queues :
              /\ ReadyOnLane(Walker, q)
              /\ queue[q].param.prio < queue[result'[Walker].out_queue].param.prio]_vars

\* C8, amended: a schedule() call that finds the local cache empty and runs
\* with no other operation in between serves the best priority at which,
\* when its walk started, a queue was attached, not empty, eligible and had
\* its token at the head of its lane: the events it returns are of a queue of
\* exactly that priority, and it returns none only if there was no such
\* queue.
C8_HeadPriority ==
    [][/\ (frame[Walker].pc = "deq" /\ result'[Walker].ret > 0)
            => queue[result'[Walker].out_queue].param.prio = best[Walker]
       /\ (frame[Walker].pc # "idle" /\ result'[Walker].ret = 0)
            => best[Walker] = NoPrio]_vars

\* C8 witness: the walk started with ready queues at the head of lanes of both
\* priorities and is about to drain one of the better priority.
C8_Witness ==
    /\ frame[Walker].pc = "deq"
    /\ best[Walker] = 0
    /\ queue[frame[Walker].ev.qe].param.prio = 0
    /\ queue[frame[Walker].ev.qe].events # <<>>
    /\ \E q \in PrioQueues : /\ queue[q].param.prio > 0
                             /\ ReadyOnLane(Walker, q)

(* ----------------------------- scenario states -------------------------- *)

\* A queue entry after odp_queue_create with parameters prm and n enqueues.
Prefilled(q, prm, n) ==
    [NewQueue(prm, 1) EXCEPT !.events = [k \in 1 .. n |-> Event(q, k - 1)],
                             !.order_in = n]

\* The queues of table qs that are attached to lane l of priority p.
LaneQueues(qs, p, l) ==
    {q \in Queues : qs[q].status = "ready" /\ qs[q].param.prio = p
                                           /\ pri_id_queue(q) = l}

\* The commands of a set of queues, in the order of the queue ids.
RECURSIVE CmdsOf(_)
CmdsOf(S) ==
    IF S = {} THEN <<>>
    ELSE <<DequeueCmd(SetMin(S))>> \o CmdsOf(S \ {SetMin(S)})

\* The scheduler after init, the creation of the queues of table qs in the
\* order of their ids and the enqueues into them: every queue is counted on
\* its lane, and the command of every queue that holds events is on the lane.
ScenarioInit(qs) ==
    /\ queue = qs
    /\ pri_queue = [p \in Prios |-> [l \in Lanes |->
                       CmdsOf({q \in LaneQueues(qs, p, l) : qs[q].events # <<>>})]]
    /\ pri_count = [p \in Prios |-> [l \in Lanes |-> Cardinality(LaneQueues(qs, p, l))]]
    /\ pri_mask = [p \in Prios |-> {l \in Lanes : LaneQueues(qs, p, l) # {}}]
    /\ pool = NUM_SCHED_CMD - Cardinality({q \in Queues : qs[q].status = "ready"})
    /\ sched_local = [t \in Threads |-> sched_local_init]
    /\ frame = [t \in Threads |-> IdleFrame]
    /\ result = [t \in Threads |-> NoResult]
    /\ aborted = FALSE
    /\ premature = FALSE
    /\ cs_log = <<>>
    /\ best = [t \in Threads |-> NoPrio]
    /\ admin = IF \E q \in Queues : qs[q].status = "ready"
               THEN [op |-> "schedule_queue_init", ret |-> 0] ELSE NoCall
    /\ created = [g \in NamedGroups |-> {}]
    /\ InitGroups
    /\ pktio = [k \in Pktios |-> 0]

(* --------------------------- lane rotation (C9) ------------------------- *)

\* Queues A, B, C, D of the rotation scenario: queue q is on lane q.
RRQueues == 0 .. QUEUES_PER_PRIO - 1

\* Four parallel queues of priority 0, one on each lane, one event in each.
InitRR ==
    ScenarioInit([q \in Queues |->
        IF q \in RRQueues
        THEN Prefilled(q, [prio |-> 0, sync |-> "parallel",
                           group |-> ODP_SCHED_GROUP_ALL, lock_count |-> 0], 1)
        ELSE FreeQueue])

\* One thread, whichever calls first, calls schedule() again and again.
NextRR ==
    \/ \E t \in Threads : \E n \in 1 .. MaxBurst :
          /\ \A u \in Threads \ {t} : result[u] = NoResult /\ frame[u].pc = "idle"
          /\ schedule_enter(t, n, 0)
    \/ ScheduleSteps(Threads)

SpecRR == InitRR /\ [][NextRR]_vars

\* The queues whose event has been taken.
Drained == {q \in RRQueues : queue[q].events = <<>>}

\* The queues on the first n lanes of the rotation that starts at lane s.
Rotation(s, n) == {(s + k) % QUEUES_PER_PRIO : k \in 0 .. n - 1}

\* Position of lane id in the rotation that starts at lane s.
RotationIndex(s, id) == (id + QUEUES_PER_PRIO - s) % QUEUES_PER_PRIO

\* C9: a thread that schedules alone is handed the events of the queues in
\* the order of the lanes, starting at lane (thread id mod 4) and wrapping:
\* thread 0 gets A, B, C, D; a call returns nothing only when every queue has
\* been drained; the j-th lane visit of a walk is at lane (start + j) mod 4
\* and a walk visits no more than 4 lanes of a priority.
C9_Rotation ==
    \A t \in Threads :
        /\ result[t].ret > 0 =>
              /\ result[t].ret = 1
              /\ Drained = Rotation(t % QUEUES_PER_PRIO,
                                    RotationIndex(t % QUEUES_PER_PRIO,
                                                  result[t].out_queue) + 1)
        /\ result[t].ret = 0 => Drained = RRQueues
        /\ frame[t].pc \in {"lane", "cmd", "deq"} =>
              /\ frame[t].j < QUEUES_PER_PRIO
              /\ WrapLane(frame[t].id) = (t + frame[t].j) % QUEUES_PER_PRIO

\* C9 witness: thread 0, alone, has drained A, B, C and D, the tokens of
\* the emptied queues are gone from the lanes and its fifth call has returned
\* nothing.
C9_Witness ==
    /\ result[0].ret = 0
    /\ Drained = RRQueues
    /\ TokensOnLanes = 0
    /\ frame[0].pc = "idle"

(* ------------------------- ordered locks (C6, C7) ----------------------- *)

\* The ordered queue of the lock scenarios and the number of events in it.
OrdQueue == 0

OrdEvents == 3

\* An ordered queue with one ordered lock holds events with sync[0] = 0, 1, 2.
InitOrd ==
    ScenarioInit([q \in Queues |->
        IF q = OrdQueue
        THEN Prefilled(q, [prio |-> 0, sync |-> "ordered",
                           group |-> ODP_SCHED_GROUP_ALL, lock_count |-> 1], OrdEvents)
        ELSE FreeQueue])

\* Every thread schedules until it is handed an event, then runs
\* order_lock(0); critical section; order_unlock(0).
NextOrd ==
    \/ \E t \in Threads : result[t].ret <= 0 /\ schedule_enter(t, 1, 0)
    \/ ScheduleSteps(Threads)
    \/ \E t \in Threads : result[t].ret > 0 /\ odp_schedule_order_lock(t, 0)
    \/ \E t \in Threads : order_lock_spin(t)
    \/ \E t \in Threads : frame[t].pc = "cs" /\ odp_schedule_order_unlock(t, 0)

SpecOrd == InitOrd /\ [][NextOrd]_vars

\* Threads inside the critical section of lock 0.
InCS == {t \in Threads : frame[t].pc = "cs"}

\* C6: the critical sections of the three threads are mutually exclusive, a
\* thread is in its critical section only while sync_out[0] equals its
\* sync[0], the critical sections are entered in the order sync[0] = 0, 1, 2,
\* and sync_out[0] is 3 once all three have been entered and left.
C6_OrderedSections ==
    /\ Cardinality(InCS) <= 1
    /\ \A t \in InCS :
          /\ sched_local[t].origin_qe = OrdQueue
          /\ queue[OrdQueue].sync_out[0] = sched_local[t].sync[0]
    /\ Len(cs_log) <= OrdEvents
    /\ \A n \in 1 .. Len(cs_log) : cs_log[n] = n - 1
    /\ queue[OrdQueue].sync_out[0] = Len(cs_log) - Cardinality(InCS)
    /\ (Len(cs_log) = OrdEvents /\ InCS = {}) => queue[OrdQueue].sync_out[0] = OrdEvents

\* C6 witness: all three critical sections have been entered and left, by
\* three different threads.
C6_Witness ==
    /\ Len(cs_log) = OrdEvents
    /\ InCS = {}
    /\ ~aborted
    /\ \A t \in Threads : result[t].ret = 1 /\ sched_local[t].origin_qe = OrdQueue
    /\ {sched_local[t].sync[0] : t \in Threads} = 0 .. OrdEvents - 1

\* Two threads schedule, lock, unlock and release their ordered context in
\* any order; release_order may fail.
NextLock ==
    \/ \E t \in Workers : \E rc \in ReleaseRc : schedule_enter(t, 1, rc)
    \/ ScheduleSteps(Workers)
    \/ \E t \in Workers : \E i \in 0 .. MaxOrderedLocks : odp_schedule_order_lock(t, i)
    \/ \E t \in Workers : order_lock_spin(t)
    \/ \E t \in Workers : \E i \in 0 .. MaxOrderedLocks : odp_schedule_order_unlock(t, i)
    \/ \E t \in Workers : \E rc \in ReleaseRc : odp_schedule_release_ordered(t, rc)

SpecLock == InitOrd /\ [][NextLock]_vars

\* Thread t returns from order_lock(i) on queue q in this step.
LockReturns(t, q, i) ==
    /\ frame[t].pc = "lock" /\ frame'[t].pc = "cs"
    /\ frame[t].lock_index = i
    /\ sched_local[t].origin_qe = q

\* Some thread's order_unlock(i) on queue q takes effect in this step: sync_out
\* changes and no order of the queue is resolved.
Unlocks(q, i) ==
    /\ queue'[q].sync_out[i] # queue[q].sync_out[i]
    /\ queue'[q].order_out = queue[q].order_out
    /\ queue'[q].released = queue[q].released

\* C7: for every ordered queue and lock index i < lock_count, sync_out[i]
\* never decreases; order_lock(i) of a thread with an ordered context returns
\* only when sync_out[i] equals the thread's sync[i]; each order_unlock(i)
\* of such a thread raises sync_out[i] by exactly one, to above the thread's
\* sync[i].
C7_SyncOut ==
    [][\A q \in Queues : \A i \in LockIdx :
          (queue[q].status = "ready" /\ queue_is_ordered(q) /\ i < queue[q].param.lock_count) =>
              /\ queue'[q].sync_out[i] >= queue[q].sync_out[i]
              /\ \A t \in Threads :
                    LockReturns(t, q, i) =>
                        queue[q].sync_out[i] = sched_local[t].sync[i]
              /\ Unlocks(q, i) =>
                    \E t \in Threads :
                        /\ sched_local[t].origin_qe = q
                        /\ frame'[t].pc = "idle"
                        /\ queue'[q].sync_out[i] = queue[q].sync_out[i] + 1
                        /\ queue'[q].sync_out[i] > sched_local[t].sync[i]
                        /\ queue[q].sync_out[i] = sched_local[t].sync[i]]_vars

\* C7 witness: a thread is in the critical section of lock 0 with sync[0] = 1
\* after the thread with sync[0] = 0 released its context without locking.
C7_Witness ==
    \E t \in Threads :
        /\ frame[t].pc = "cs"
        /\ sched_local[t].sync[0] = 1
        /\ queue[OrdQueue].sync_out[0] = 1
        /\ cs_log = <<1>>

(* ------------------------- atomic exclusion (C10) ----------------------- *)

\* Queue X and threads T1 and T2 of the atomic scenario.
AtomicQueue == 0

T1 == 0

T2 == 1

\* An atomic queue holds two events; its token is on its lane.
InitAtomic ==
    ScenarioInit([q \in Queues |->
        IF q = AtomicQueue
        THEN Prefilled(q, [prio |-> 0, sync |-> "atomic",
                           group |-> ODP_SCHED_GROUP_ALL, lock_count |-> 0], 2)
        ELSE FreeQueue])

\* T1 calls schedule_multi(max = 1), T2 schedule_multi(max = 10), both call
\* release_atomic, in any order.
NextAtomic ==
    \/ schedule_enter(T1, 1, 0)
    \/ schedule_enter(T2, 10, 0)
    \/ ScheduleSteps({T1, T2})
    \/ \E t \in {T1, T2} : odp_schedule_release_atomic(t)

SpecAtomic == InitAtomic /\ [][NextAtomic]_vars

\* C10 as stated: once T1's schedule_multi(max = 1) has returned 1 event and
\* left T1 holding X, T1's local cache is empty, so that its release_atomic()
\* puts the token back, and the second event is still in X for T2's retry.
C10_Original ==
    (/\ result[T1].ret = 1
     /\ Holders(DequeueCmd(AtomicQueue)) = {T1})
        => /\ sched_local[T1].buf_hdr = <<>>
           /\ Len(queue[AtomicQueue].events) = 1

\* C10, amended: the dispatch that hands T1 one event drains both events of X
\* (up to MAX_DEQ, whatever max is) and caches the second; T1 holds X's
\* context, and keeps it through release_atomic() as long as the event is
\* cached, with the token on no lane; T1 is handed one event per call; once
\* T1 has been handed an event of X, T2 is handed none: its calls return 0.
C10_AtomicDrain ==
    /\ Len(queue[AtomicQueue].events) \in {0, 2}
    /\ result[T1].ret \in {NONE, 0, 1}
    /\ sched_local[T1].buf_hdr # <<>> =>
          /\ Holders(DequeueCmd(AtomicQueue)) = {T1}
          /\ LaneCopies(DequeueCmd(AtomicQueue)) = 0
          /\ Len(sched_local[T1].buf_hdr) = 1
          /\ queue[AtomicQueue].events = <<>>
    /\ (result[T1].ret > 0 \/ sched_local[T1].qe = AtomicQueue) =>
          /\ result[T2].ret <= 0
          /\ sched_local[T2].buf_hdr = <<>>
          /\ sched_local[T2].qe = NONE
    /\ Cardinality(Holders(DequeueCmd(AtomicQueue))) <= 1

\* C10 witness: T1 was handed an event of X and then the cached one, released
\* the context with its cache empty, and T2's retry took the token off the
\* lane, found X empty and returned 0.
C10_Witness ==
    /\ result[T1].ret = 1
    /\ sched_local[T1].qe = AtomicQueue
    /\ sched_local[T1].buf_hdr = <<>>
    /\ sched_local[T1].pri_queue = NoLane
    /\ queue[AtomicQueue].events = <<>>
    /\ TokensOnLanes = 0
    /\ result[T2].ret = 0
    /\ frame[T2].pc = "idle"

(* ------------------------- mask and count (C2) -------------------------- *)

\* Queues are attached and detached and packet inputs started by the
\* application while two threads schedule and retire packet inputs.  Nothing
\* is enqueued, so no DEQUEUE command is ever on a lane and the walks never
\* get to drain a queue.
NextFabric ==
    \/ \E q \in DynQueues :
          \E prm \in QueueParams(Prios, {"parallel"}, {ODP_SCHED_GROUP_ALL}, {0}) :
              queue_create(q, prm)
    \/ \E q \in DynQueues : queue_destroy(q)
    \/ \E k \in Pktios \ Polled : \E prio \in Prios : schedule_pktio_start(k, prio)
    \/ \E t \in Workers : schedule_enter(t, 1, 0)
    \/ \E t \in Workers : schedule_prio(t)
    \/ \E t \in Workers : schedule_lane(t)
    \/ \E t \in Workers : \E retire \in BOOLEAN : schedule_cmd(t, retire)

SpecFabric == Init /\ [][NextFabric]_vars
(* --------------------------- claims: group table ------------------------ *)

\* Thread masks the callers of the group operations pass: no thread, one
\* worker, every worker.
GroupMasks == {{}, {GroupMember}, Workers}

\* Group handles the callers pass: every slot of the table and one handle
\* beyond it.
GroupHandles == 0 .. ODP_CONFIG_SCHED_GRPS

\* Groups are created, destroyed, joined and left in any order, under any of
\* the names and masks, by callers serialised by grp_lock.
NextGrp ==
    \/ \E name \in GroupNames : \E m \in GroupMasks : odp_schedule_group_create(name, m)
    \/ \E g \in GroupHandles : odp_schedule_group_destroy(g)
    \/ \E g \in GroupHandles : \E m \in GroupMasks : odp_schedule_group_join(g, m)
    \/ \E g \in GroupHandles : \E m \in GroupMasks : odp_schedule_group_leave(g, m)

SpecGrp == Init /\ [][NextGrp]_vars

C12_Original ==
    admin.op = "group_leave" =>
        \A before \in admin.joined : sched_grp[admin.group].mask = before

\* C12: for an occupied named group g and a mask m, group_join(g, m) followed
\* by group_leave(g, m) returns 0 and leaves g with the mask it had before the
\* join less the threads of m; that is the mask before the join exactly when
\* no thread of m was in it.
C12_JoinLeave ==
    admin.op = "group_leave" =>
        \A before \in admin.joined :
            LET now == sched_grp[admin.group].mask
            IN /\ admin.ret = 0
               /\ now = before \ admin.mask
               /\ (now = before) <=> (before \cap admin.mask = {})

\* A thread that was in the group is joined again, with another, and the
\* leave of both takes it out.
C12_Witness ==
    /\ admin.op = "group_leave"
    /\ admin.joined = {{GroupMember}}
    /\ admin.mask = Workers
    /\ sched_grp[admin.group].mask = {}
\* A slot in the free state: empty name, zeroed mask.
FreeSlot == [name |-> <<>>, mask |-> {}]

\* C13 as stated: for every name and mask, group_create(name, mask) returning
\* g followed by group_destroy(g) succeeds and returns slot g to the free
\* state, so that the table is what it was before the create; group_destroy
\* of a well-known index or of a free slot returns -1 and changes nothing.
C13_Original ==
    admin.op = "group_destroy" =>
        /\ \A table \in admin.created :
              /\ admin.ret = 0
              /\ sched_grp[admin.group] = FreeSlot
              /\ sched_grp = table
        /\ (admin.group < ODP_SCHED_GROUP_NAMED \/
            (admin.group \in NamedGroups /\ admin.before[admin.group].name = <<>>))
           => (admin.ret = -1 /\ sched_grp = admin.before)

\* C13, what holds of it: group_create(name, mask) returning g, into a slot
\* that was free with a zeroed mask, followed by group_destroy(g) returns 0
\* exactly when the name is not empty, and then leaves the table as it was
\* before the create; a group_destroy of a well-known index, of a free slot
\* or of a handle beyond the table returns -1 and changes nothing.
C13_CreateDestroy ==
    admin.op = "group_destroy" =>
        /\ \A table \in admin.created :
              table[admin.group] = FreeSlot =>
                  /\ (admin.ret = 0) <=> (admin.before[admin.group].name # <<>>)
                  /\ admin.ret = 0 => sched_grp = table
        /\ (admin.group \notin NamedGroups \/ admin.before[admin.group].name = <<>>)
           => (admin.ret = -1 /\ sched_grp = admin.before)

\* A group created under a name and destroyed at once.
C13_Witness ==
    /\ admin.op = "group_destroy"
    /\ admin.created # {}
    /\ admin.ret = 0
    /\ admin.before[admin.group].name = <<"a">>
    /\ sched_grp[admin.group] = FreeSlot
(* ----------------------- claims: resource exhaustion -------------------- *)

\* Queue entries the callers of the exhaustion specification attach.
ExhaustQueues == {0, 1}

\* Callers attach and detach queues, start a packet input again and again
\* (each start takes a command buffer of the pool of NUM_SCHED_CMD) and
\* create and destroy named groups.
NextExhaust ==
    \/ \E q \in ExhaustQueues :
          \E prm \in QueueParams({0}, {"parallel"}, {ODP_SCHED_GROUP_ALL}, {0}) :
              queue_create(q, prm)
    \/ \E q \in ExhaustQueues : queue_destroy(q)
    \/ \E k \in Pktios : schedule_pktio_start(k, 0)
    \/ \E m \in {{}, Workers} : odp_schedule_group_create(<<"a">>, m)
    \/ \E g \in NamedGroups : odp_schedule_group_destroy(g)

SpecExhaust == Init /\ [][NextExhaust]_vars

\* The step is the administration call op.
Calls(op) == admin' # admin /\ admin'.op = op

\* C14: schedule_queue_init and schedule_pktio_start return -1 exactly when
\* the pool has no free command buffer, and then leave pri_mask, pri_count,
\* the lanes, the pool and the queue table as they were; group_create returns
\* ODP_SCHED_GROUP_INVALID exactly when no named slot is free, and then
\* leaves the group table as it was.
C14_Exhaustion ==
    [][/\ \A op \in {"schedule_queue_init", "schedule_pktio_start"} :
             Calls(op) =>
                 /\ (admin'.ret = -1) <=> (pool = 0)
                 /\ admin'.ret = -1 =>
                        UNCHANGED <<pri_mask, pri_count, pri_queue, pool, queue, pktio>>
       /\ Calls("group_create") =>
             /\ (admin'.ret = NONE) <=> (FreeSlots = {})
             /\ admin'.ret = NONE => UNCHANGED sched_grp]_vars

\* An attach was refused for want of a command buffer while no named slot is
\* free either.
C14_Witness ==
    /\ admin.op = "schedule_queue_init"
    /\ admin.ret = -1
    /\ pool = 0
    /\ FreeSlots = {}
    /\ \E q \in ExhaustQueues : queue[q].status = "free"
(* ------------------------- claims: pause and resume --------------------- *)

\* Queues of the pause scenario: an atomic queue of priority 0, an ordered
\* queue of priority 1.
PauseAtomic == 0

PauseOrdered == 1

\* The atomic queue holds three events, the ordered queue two.
InitPause ==
    ScenarioInit([q \in Queues |->
        IF q = PauseAtomic
        THEN Prefilled(q, [prio |-> 0, sync |-> "atomic",
                           group |-> ODP_SCHED_GROUP_ALL, lock_count |-> 0], 3)
        ELSE IF q = PauseOrdered
        THEN Prefilled(q, [prio |-> 1, sync |-> "ordered",
                           group |-> ODP_SCHED_GROUP_ALL, lock_count |-> 1], 2)
        ELSE FreeQueue])

\* Two workers schedule, pause and resume in any order.
NextPause ==
    \/ \E t \in Workers : \E n \in 1 .. MaxBurst : schedule_enter(t, n, 0)
    \/ ScheduleSteps(Workers)
    \/ \E t \in Workers : odp_schedule_pause(t)
    \/ \E t \in Workers : odp_schedule_resume(t)

SpecPause == InitPause /\ [][NextPause]_vars

\* The step is a schedule() call of thread t that finds the pause flag in
\* state p (it returns at once, or enters the walk).
ScheduleCall(t, p) ==
    /\ frame[t].pc = "idle"
    /\ sched_local[t].pause = p
    /\ sched_local'[t].pause = p
    /\ result'[t] # result[t] \/ sched_local'[t] # sched_local[t] \/ frame'[t] # frame[t]

\* No lane loses a command in the step.
NoDequeue ==
    \A p \in Prios : \A l \in Lanes :
        /\ Len(pri_queue'[p][l]) >= Len(pri_queue[p][l])
        /\ SubSeq(pri_queue'[p][l], 1, Len(pri_queue[p][l])) = pri_queue[p][l]

\* The call returns events of the local cache of thread t only: as many as
\* leave the cache, none when it is empty.
FromCache(t) ==
    /\ frame'[t].pc = "idle"
    /\ result'[t].ret = Len(sched_local[t].buf_hdr) - Len(sched_local'[t].buf_hdr)
    /\ \E n \in 0 .. Len(sched_local[t].buf_hdr) :
          sched_local'[t].buf_hdr = SubSeq(sched_local[t].buf_hdr, n + 1,
                                           Len(sched_local[t].buf_hdr))
    /\ sched_local[t].buf_hdr = <<>> => result'[t].ret = 0

\* The thread holds after the step the contexts it held before.
ContextKept(t) ==
    /\ sched_local'[t].pri_queue = sched_local[t].pri_queue
    /\ sched_local'[t].cmd_ev = sched_local[t].cmd_ev
    /\ sched_local'[t].origin_qe = sched_local[t].origin_qe

\* pause and resume write the flag and nothing else.
FlagOnly(t) ==
    sched_local'[t].pause # sched_local[t].pause =>
        /\ sched_local' = [sched_local EXCEPT ![t].pause = sched_local'[t].pause]
        /\ UNCHANGED <<pri_queue, pri_mask, pri_count, pool, sched_grp, queue, pktio,
                       frame, result, aborted>>

\* C15 as stated: a schedule() call of a paused thread dequeues no command,
\* returns events of its local cache only and does not drop a context the
\* thread holds; pause and resume change nothing but the flag, so that after
\* resume the thread dispatches as without the pause.
C15_Original ==
    [][\A t \in Workers :
          /\ ScheduleCall(t, 1) => NoDequeue /\ FromCache(t) /\ ContextKept(t)
          /\ FlagOnly(t)]_vars

\* C15: a schedule() call of a paused thread dequeues no command and returns
\* events of its local cache only, 0 when the cache is empty.  It keeps the
\* thread's context while it serves the cache; a call that finds the cache
\* empty releases the context as every schedule() call does before it looks
\* at the flag: the command of a held atomic queue goes back on its lane and
\* the ordered origin is cleared.  pause and resume change nothing but the
\* flag, and a call of a thread that is not paused and has an empty cache
\* enters the walk.
C15_Pause ==
    [][\A t \in Workers :
          LET sl == sched_local[t] IN
          /\ ScheduleCall(t, 1) =>
                /\ NoDequeue
                /\ FromCache(t)
                /\ sl.buf_hdr # <<>> => ContextKept(t) /\ UNCHANGED pri_queue
                /\ sl.buf_hdr = <<>> =>
                      /\ sched_local'[t].pri_queue = NoLane
                      /\ sched_local'[t].origin_qe = NONE
                      /\ pri_queue' =
                            IF sl.origin_qe = NONE /\ sl.pri_queue # NoLane
                            THEN [pri_queue EXCEPT ![sl.pri_queue[1]][sl.pri_queue[2]] =
                                     Append(@, sl.cmd_ev)]
                            ELSE pri_queue
          /\ ScheduleCall(t, 0) /\ sl.buf_hdr = <<>> => frame'[t].pc = "prio"
          /\ FlagOnly(t)]_vars

\* A paused thread that held the atomic queue has called schedule() with an
\* empty cache: it got nothing, holds no context, and the queue's command is
\* back on its lane.
C15_Witness ==
    \E t \in Workers :
        /\ sched_local[t].pause = 1
        /\ frame[t].pc = "idle"
        /\ result[t] = [ret |-> 0, out_queue |-> NONE]
        /\ sched_local[t].qe = PauseAtomic
        /\ sched_local[t].pri_queue = NoLane
        /\ sched_local[t].buf_hdr = <<>>
        /\ queue[PauseAtomic].events = <<>>
        /\ LaneCopies(DequeueCmd(PauseAtomic)) = 1
(* ----------------------------- claims: term_local ----------------------- *)

\* Two workers schedule from the queues of the pause scenario and call
\* odp_schedule_term_local at any time between their schedule() calls.
NextTerm ==
    \/ \E t \in Workers : \E n \in 1 .. MaxBurst : \E rc \in ReleaseRc :
          schedule_enter(t, n, rc)
    \/ ScheduleSteps(Workers)
    \/ \E t \in Workers : \E rc \in ReleaseRc : odp_schedule_term_local(t, rc)

SpecTerm == InitPause /\ [][NextTerm]_vars

\* The step is an odp_schedule_term_local call of thread t: the last
\* administration call is t's term_local, no call is entered or left, no
\* cache and no other thread's context changes.
TermLocal(t) ==
    /\ admin'.op = "term_local"
    /\ admin'.thr = t
    /\ frame[t].pc = "idle"
    /\ UNCHANGED <<frame, result>>
    /\ \A u \in Threads \ {t} : sched_local'[u] = sched_local[u]
    /\ sched_local'[t].buf_hdr = sched_local[t].buf_hdr
    /\ admin' # admin \/ sched_local'[t] # sched_local[t]

NextRelease ==
    \/ \E t \in Workers : \E rc \in ReleaseRc : schedule_enter(t, 1, rc)
    \/ ScheduleSteps(Workers)
    \/ \E t \in Workers : \E rc \in ReleaseRc : odp_schedule_release_ordered(t, rc)
    \/ \E t \in Workers : \E rc \in ReleaseRc : odp_schedule_release_context(t, rc)

SpecRelease == InitOrd /\ [][NextRelease]_vars

\* The step resolves the order of the ordered context thread t holds:
\* release_order has succeeded.
OrderResolved(t) ==
    LET sl == sched_local[t]
    IN queue'[sl.origin_qe] = release_order(queue[sl.origin_qe], sl.order)

\* C17 as stated: the ordered context of a thread is cleared only by a release
\* whose release_order succeeds; a release whose release_order fails, the one
\* at the top of schedule() included, leaves it set.
C17_Original ==
    [][\A t \in Workers :
          sched_local[t].origin_qe # NONE /\ sched_local'[t].origin_qe = NONE
              => OrderResolved(t)]_vars

\* An order that is not resolved and that no thread holds any more: the
\* event was handed out, and the context was cleared by a release whose
\* release_order failed.
LostOrders ==
    {n \in 0 .. queue[OrdQueue].order_in - 1 :
        /\ n >= queue[OrdQueue].order_out
        /\ n \notin queue[OrdQueue].released
        /\ \A k \in 1 .. Len(queue[OrdQueue].events) : queue[OrdQueue].events[k].order # n
        /\ \A t \in Threads :
              ~(sched_local[t].origin_qe = OrdQueue /\ sched_local[t].order = n)}

\* C17, the failure: the first order is lost and both workers hold nothing.
C17_Witness ==
    /\ 0 \in LostOrders
    /\ \A t \in Workers : frame[t].pc = "idle" /\ sched_local[t].origin_qe = NONE
(* ----------------------- claims: packet input polling ------------------- *)

\* A queue is attached and detached, a packet input is started any number
\* of times, and two workers walk the lanes, the driver telling them to
\* retire the input or not.
NextPoll ==
    \/ \E q \in DynQueues :
          \E prm \in QueueParams(Prios, {"parallel"}, {ODP_SCHED_GROUP_ALL}, {0}) :
              queue_create(q, prm)
    \/ \E q \in DynQueues : queue_destroy(q)
    \/ \E k \in Pktios : \E prio \in Prios : schedule_pktio_start(k, prio)
    \/ \E t \in Workers : schedule_enter(t, 1, 0)
    \/ \E t \in Workers : schedule_prio(t)
    \/ \E t \in Workers : schedule_lane(t)
    \/ \E t \in Workers : \E retire \in BOOLEAN : schedule_cmd(t, retire)

SpecPoll == Init /\ [][NextPoll]_vars

\* The step is thread t disposing of the POLL_PKTIN command it dequeued.
PollStep(t) ==
    /\ frame[t].pc = "cmd"
    /\ frame[t].ev.cmd = "POLL_PKTIN"
    /\ frame'[t] # frame[t]

\* The outcome of a poll that retires the input: the lane the command came
\* from is uncounted by one, its bit cleared if the count is then zero, the
\* buffer goes back to the pool and no lane changes.
RetireOutcome(t) ==
    LET prio == frame[t].i
        id   == frame[t].id
    IN /\ pri_count' = [pri_count EXCEPT ![prio][id] = pri_count[prio][id] - 1]
       /\ pri_mask' = [pri_mask EXCEPT ![prio] =
                          IF pri_count[prio][id] - 1 = 0 THEN @ \ {id} ELSE @]
       /\ pool' = pool + 1
       /\ UNCHANGED pri_queue

\* The outcome of a poll that does not: the command is at the tail of the
\* lane it came from, and the counts, the mask and the pool are as they were.
RequeueOutcome(t) ==
    /\ pri_queue' = [pri_queue EXCEPT ![frame[t].i][frame[t].id] = Append(@, frame[t].ev)]
    /\ UNCHANGED <<pri_count, pri_mask, pool>>

\* All commands of packet input k that are on a lane or in a dispatcher's hand.
PollTokens(k) ==
    LET RECURSIVE Sum(_)
        Sum(S) == IF S = {} THEN 0
                  ELSE LET p == CHOOSE x \in S : TRUE
                       IN TokenCopies(PollCmd(k, p)) + Sum(S \ {p})
    IN Sum(Prios)

InitCtx ==
    ScenarioInit([q \in Queues |->
        IF q = PauseAtomic
        THEN Prefilled(q, [prio |-> 0, sync |-> "atomic",
                           group |-> ODP_SCHED_GROUP_ALL, lock_count |-> 0], 2)
        ELSE IF q = PauseOrdered
        THEN Prefilled(q, [prio |-> 1, sync |-> "ordered",
                           group |-> ODP_SCHED_GROUP_ALL, lock_count |-> 0], 2)
        ELSE FreeQueue])

\* Two workers call schedule, the three releases, pause, resume and
\* term_local in any order, release_order failing or not.
NextCtx ==
    \/ \E t \in Workers : \E n \in 1 .. MaxBurst : \E rc \in ReleaseRc :
          schedule_enter(t, n, rc)
    \/ ScheduleSteps(Workers)
    \/ \E t \in Workers : odp_schedule_release_atomic(t)
    \/ \E t \in Workers : \E rc \in ReleaseRc : odp_schedule_release_ordered(t, rc)
    \/ \E t \in Workers : \E rc \in ReleaseRc : odp_schedule_release_context(t, rc)
    \/ \E t \in Workers : odp_schedule_pause(t)
    \/ \E t \in Workers : odp_schedule_resume(t)
    \/ \E t \in Workers : \E rc \in ReleaseRc : odp_schedule_term_local(t, rc)

SpecCtx == InitCtx /\ [][NextCtx]_vars

\* Thread t holds an atomic context: sched_local.pri_queue is valid.
HoldsAtomic(t) == sched_local[t].pri_queue # NoLane

\* Thread t holds an ordered context: sched_local.origin_qe is set.
HoldsOrdered(t) == sched_local[t].origin_qe # NONE

\* C19: in every state, in or between calls, no thread holds an atomic
\* context and an ordered context together.
C19_OneContext == \A t \in Threads : ~(HoldsAtomic(t) /\ HoldsOrdered(t))

\* A worker holds the atomic context, having held the ordered one before (the
\* order it let go of is lost or resolved), and the other worker, paused,
\* holds the ordered context; a term_local has been served.
C19_Witness ==
    \E t \in Workers : \E u \in Workers \ {t} :
        /\ HoldsAtomic(t) /\ ~HoldsOrdered(t)
        /\ HoldsOrdered(u) /\ ~HoldsAtomic(u)
        /\ sched_local[u].pause = 1
        /\ sched_local[u].order = 1
        /\ admin = [op |-> "term_local", thr |-> t, ret |-> -1]
        /\ local_num(t) > 0
(* --------------------- claims: progress of ordered locks ---------------- *)

\* The event thread t holds has been through its critical section.
Served(t) == \E n \in 1 .. Len(cs_log) : cs_log[n] = sched_local[t].sync[0]

\* Thread t was handed an event of the ordered queue and has not locked yet.
MustLock(t) ==
    /\ frame[t].pc = "idle"
    /\ result[t].ret > 0
    /\ sched_local[t].origin_qe # NONE
    /\ ~Served(t)

\* What thread t does once it is in a call or holds an event: the walk of
\* schedule(), then order_lock(0), the wait loop and order_unlock(0).
Run(t) ==
    \/ ScheduleSteps({t})
    \/ MustLock(t) /\ odp_schedule_order_lock(t, 0)
    \/ order_lock_spin(t)
    \/ frame[t].pc = "cs" /\ odp_schedule_order_unlock(t, 0)

\* Every thread calls schedule() when it holds no event to lock for, and
\* runs.
NextLive ==
    \/ \E t \in Threads : ~MustLock(t) /\ schedule_enter(t, 1, 0)
    \/ \E t \in Threads : Run(t)

\* A thread that is in a call, or holds an event, keeps running; whether it
\* calls schedule() again is up to it.
SpecLive == InitOrd /\ [][NextLive]_vars /\ \A t \in Threads : WF_vars(Run(t))

\* C20: every order_lock(0) call of a thread that holds an event of the
\* ordered queue eventually returns, the thread then being in its critical
\* section.
C20_LockReturns ==
    \A t \in Threads : (frame[t].pc = "lock") ~> (frame[t].pc = "cs")

\* A thread waits in order_lock for the third event, on a sync_out it loaded
\* before any unlock, while another thread is in the critical section of the
\* second event, and the third thread was handed nothing yet.
C20_Witness ==
    \E t \in Threads : \E u \in Threads \ {t} : \E w \in Threads \ {t, u} :
        /\ frame[t].pc = "lock"
        /\ sched_local[t].sync[0] = 2
        /\ frame[t].sync_out = 0
        /\ frame[u].pc = "cs"
        /\ sched_local[u].sync[0] = 1
        /\ cs_log = <<0, 1>>
        /\ sched_local[w].origin_qe = NONE
        /\ result[w].ret <= 0

=============================================================================
